---- MODULE Spec2Model ----
(***************************************************************************)
(* Model of .github/scripts/code_review_agent.py: CodeReviewAgent.         *)
(* One run of main(): __init__ reads the environment, run_review resolves  *)
(* the change set, reviews each file (linters, AI provider, file comment)  *)
(* and posts the summary.  Text values are TLA+ strings handled character  *)
(* by character, so endswith, strip, split, join, lower and `in` are       *)
(* computed as Python computes them.                                       *)
(***************************************************************************)
EXTENDS Integers, Sequences, FiniteSets, TLC

\* ---------------------------------------------------------------- bounds
\* Longest change set the diff reports.
MaxFiles == 2
\* Most external calls of one run that do not end the normal way (a linter
\* missing, exiting non-zero or timing out, a provider call raising or
\* answering blank, an HTTP post being rejected).
MaxFaults == 1

\* -------------------------------------------------------- Python strings
UpperChars == "ABCDEFGHIJKLMNOPQRSTUVWXYZ"
LowerChars == "abcdefghijklmnopqrstuvwxyz"

Char(s, k) == SubSeq(s, k, k)

UpperSet == {Char(UpperChars, k) : k \in 1..26}

\* The lower-case letter of each upper-case letter.
LowerOf ==
    [c \in UpperSet |-> Char(LowerChars, CHOOSE k \in 1..26 : Char(UpperChars, k) = c)]

\* str.lower() on one character.
LowerChar(c) == IF c \in UpperSet THEN LowerOf[c] ELSE c

RECURSIVE Lower(_)
\* str.lower()
Lower(s) == IF s = "" THEN "" ELSE LowerChar(Char(s, 1)) \o Lower(Tail(s))

\* `sub in s`
Contains(s, sub) ==
    \E k \in 0..(Len(s) - Len(sub)) : SubSeq(s, k + 1, k + Len(sub)) = sub

\* s.endswith(suffix)
EndsWith(s, suffix) ==
    /\ Len(s) >= Len(suffix)
    /\ SubSeq(s, Len(s) - Len(suffix) + 1, Len(s)) = suffix

IsSpace(c) == c \in {" ", "\n", "\t", "\r"}

RECURSIVE LStrip(_)
LStrip(s) == IF s # "" /\ IsSpace(Char(s, 1)) THEN LStrip(Tail(s)) ELSE s

RECURSIVE RStrip(_)
RStrip(s) ==
    IF s # "" /\ IsSpace(Char(s, Len(s)))
    THEN RStrip(SubSeq(s, 1, Len(s) - 1))
    ELSE s

\* str.strip()
Strip(s) == RStrip(LStrip(s))

RECURSIVE Split(_, _)
\* s.split(sep) for a one-character separator.
Split(s, sep) ==
    IF \E k \in 1..Len(s) : Char(s, k) = sep
    THEN LET k == CHOOSE j \in 1..Len(s) :
                      /\ Char(s, j) = sep
                      /\ \A h \in 1..(j - 1) : Char(s, h) # sep
         IN  <<SubSeq(s, 1, k - 1)>> \o Split(SubSeq(s, k + 1, Len(s)), sep)
    ELSE <<s>>

RECURSIVE Join(_, _)
\* sep.join(parts)
Join(parts, sep) ==
    IF parts = <<>> THEN ""
    ELSE IF Len(parts) = 1 THEN parts[1]
    ELSE parts[1] \o sep \o Join(Tail(parts), sep)

\* Python's `a or b` on two strings.
StrOr(a, b) == IF a # "" THEN a ELSE b

Range(f) == {f[k] : k \in DOMAIN f}

\* ------------------------------------------------------------ the inputs
\* Paths the diff may list, in the sorted order git prints them.
Paths == <<"a.py", "b.ts", "c.md">>

\* The change sets: the sub-lists of Paths of at most MaxFiles paths.
ChangeSets ==
    {cs \in UNION {[1..n -> Range(Paths)] : n \in 0..MaxFiles} :
        \A j, k \in DOMAIN cs :
            j < k => \E p, q \in DOMAIN Paths : p < q /\ Paths[p] = cs[j] /\ Paths[q] = cs[k]}

\* What `git diff --name-only` prints for a change set: one path per line.
Stdout(cs) == IF cs = <<>> THEN "" ELSE Join(cs, "\n") \o "\n"

\* Outcomes of subprocess.run(['git', 'diff', ...]): the command ran (exit
\* 0 with the listing, or non-zero with its message on stderr and nothing
\* on stdout), or could not be executed (FileNotFoundError).
DiffResults(cs) ==
    {[status |-> "exit0", stdout |-> Stdout(cs)],
     [status |-> "nonzero", stdout |-> ""],
     [status |-> "cannot_exec", stdout |-> ""]}

\* Outcomes of one linter process: it exits 0, or (a fault) it is not
\* installed, exits non-zero with some output, or times out.
LinterNormal ==
    {[kind |-> "exit", returncode |-> 0, stderr |-> "", stdout |-> ""]}
LinterFaults ==
    {[kind |-> "notfound", returncode |-> 0, stderr |-> "", stdout |-> ""],
     [kind |-> "exit", returncode |-> 1, stderr |-> "E501 line too long", stdout |-> ""],
     [kind |-> "exit", returncode |-> 1, stderr |-> "", stdout |-> "would reformat"],
     [kind |-> "exit", returncode |-> 1, stderr |-> "", stdout |-> ""],
     [kind |-> "timeout", returncode |-> 0, stderr |-> "", stdout |-> ""]}

\* Outcomes of one provider call: a review text, or (a fault) a blank
\* text or an exception with its str(e).
AiNormal ==
    {[kind |-> "text", text |-> "Consider adding tests."]}
AiFaults ==
    {[kind |-> "text", text |-> ""],
     [kind |-> "text", text |-> " \n"],
     [kind |-> "raise", text |-> "Connection error."],
     [kind |-> "raise", text |-> ""]}

\* ------------------------------------------------------------- the state
VARIABLES
    github_token,       \* __init__: GITHUB_TOKEN is set
    openai_api_key,     \* __init__: OPENAI_API_KEY is set and non-empty
    anthropic_api_key,  \* __init__: ANTHROPIC_API_KEY is set and non-empty
    google_api_key,     \* __init__: GOOGLE_API_KEY is set and non-empty
    event_ok,           \* the file at GITHUB_EVENT_PATH parses as a PR event
    diff,               \* what the git diff subprocess does
    disk,               \* the paths os.path.exists() finds
    pc,                 \* position in run_review
    changed_files,      \* run_review: changed_files
    idx,                \* run_review: position of the for loop
    linter_k,           \* run_linters: position of the for loop
    issues,             \* run_linters: issues
    lint_log,           \* the linter processes of this run_linters call
    linter_issues,      \* run_review: linter_issues
    ai_issues,          \* run_review: ai_issues
    ai_log,             \* the providers contacted by the last AI call
    all_issues,         \* run_review: all_issues
    calls,              \* every external call of the run, in order (n: the
                        \* number of issues handed to post_comment)
    posts,              \* the HTTP requests sent to the hosting API
    linter_total,       \* issues run_linters returned that were commented on
    ai_total,           \* issues analyze_code_with_ai returned, likewise
    faults              \* failed external calls so far

vars == <<github_token, openai_api_key, anthropic_api_key, google_api_key,
          event_ok, diff, disk, pc, changed_files, idx, linter_k, issues,
          lint_log, linter_issues, ai_issues, ai_log, all_issues, calls,
          posts, linter_total, ai_total, faults>>

env == <<github_token, openai_api_key, anthropic_api_key, google_api_key,
         event_ok, diff, disk>>

\* CodeReviewAgent() has read the environment; run_review has not started.
Init ==
    /\ github_token \in BOOLEAN
    /\ openai_api_key \in BOOLEAN
    /\ anthropic_api_key \in BOOLEAN
    /\ google_api_key \in BOOLEAN
    /\ event_ok \in BOOLEAN
    /\ \E cs \in ChangeSets :
          /\ diff \in DiffResults(cs)
          /\ disk \in SUBSET Range(cs)
    /\ pc = "get_changed_files"
    /\ changed_files = <<>>
    /\ idx = 1
    /\ linter_k = 1
    /\ issues = <<>>
    /\ lint_log = <<>>
    /\ linter_issues = <<>>
    /\ ai_issues = <<>>
    /\ ai_log = <<>>
    /\ all_issues = <<>>
    /\ calls = <<>>
    /\ posts = <<>>
    /\ linter_total = 0
    /\ ai_total = 0
    /\ faults = 0

\* ------------------------------------------------------ get_changed_files
\* The value get_changed_files returns for a completed subprocess.
ChangedFilesOf(stdout) ==
    IF Strip(stdout) # "" THEN Split(Strip(stdout), "\n") ELSE <<>>

\* AfterGetChangedFiles without the early return: an empty change set goes
\* on to the summary.
AfterGetChangedFilesNoReturn(files) ==
    IF files = <<>> THEN "post_review_comment" ELSE "for_file"

\* run_review after get_changed_files: the early return.
AfterGetChangedFiles(files) == IF files = <<>> THEN "done" ELSE "for_file"

\* run_review up to the for loop.  subprocess.run raises FileNotFoundError
\* when git cannot be executed; nothing catches it.
get_changed_files ==
    /\ pc = "get_changed_files"
    /\ IF diff.status = "cannot_exec"
       THEN /\ pc' = "crashed"
            /\ UNCHANGED changed_files
       ELSE /\ changed_files' = ChangedFilesOf(diff.stdout)
            /\ pc' = AfterGetChangedFiles(changed_files')
    /\ calls' = Append(calls, [op |-> "git_diff", path |-> "", n |-> 0])
    /\ UNCHANGED <<env, idx, linter_k, issues, lint_log, linter_issues,
                   ai_issues, ai_log, all_issues, posts, linter_total,
                   ai_total, faults>>

\* ------------------------------------------------------------ run_linters
PyLinters == <<"pylint", "flake8", "black", "isort">>
JsLinters == <<"eslint", "prettier">>
JsSuffixes == {".js", ".ts", ".jsx", ".tsx"}

\* The linters of a path's extension class, in the order they are run.
LintersFor(path) ==
    IF EndsWith(path, ".py") THEN PyLinters
    ELSE IF \E s \in JsSuffixes : EndsWith(path, s) THEN JsLinters
    ELSE <<>>

\* LinterIssue with FileNotFoundError handled like a timeout: a linter that
\* is not installed is reported.
LinterIssueReportsMissing(name, o) ==
    IF o.kind = "timeout" THEN <<"**" \o name \o "**: Timeout">>
    ELSE IF o.kind = "notfound" THEN <<"**" \o name \o "**: Not installed">>
    ELSE IF o.returncode # 0
         THEN <<"**" \o name \o "**: " \o StrOr(o.stderr, o.stdout)>>
         ELSE <<>>

\* What one pass of the linter loop appends to issues.
LinterIssue(name, o) ==
    IF o.kind = "timeout" THEN <<"**" \o name \o "**: Timeout">>
    ELSE IF o.kind = "notfound" THEN <<>>
    ELSE IF o.returncode # 0
         THEN <<"**" \o name \o "**: " \o StrOr(o.stderr, o.stdout)>>
         ELSE <<>>

\* Exists with the check left out: every listed path is reviewed.
ExistsUnchecked(path) == TRUE

\* os.path.exists(file_path)
Exists(path) == path \in disk

\* The head of run_review's for loop: the loop ends, a path that is gone is
\* skipped, or the file is read and run_linters starts.  (The content
\* read_file_content returns only fills the AI prompt.)
for_file ==
    /\ pc = "for_file"
    /\ IF idx > Len(changed_files)
       THEN /\ pc' = "post_review_comment"
            /\ UNCHANGED <<idx, linter_k, issues, lint_log>>
       ELSE IF ~Exists(changed_files[idx])
       THEN /\ idx' = idx + 1
            /\ UNCHANGED <<pc, linter_k, issues, lint_log>>
       ELSE /\ pc' = "run_linters"
            /\ linter_k' = 1
            /\ issues' = <<>>
            /\ lint_log' = <<>>
            /\ UNCHANGED idx
    /\ UNCHANGED <<env, changed_files, linter_issues, ai_issues, ai_log,
                   all_issues, calls, posts, linter_total, ai_total, faults>>

\* One pass of run_linters' loop: one linter process, ending in one of
\* `outcomes`.
RunLinter(outcomes) ==
    /\ pc = "run_linters"
    /\ linter_k <= Len(LintersFor(changed_files[idx]))
    /\ LET name == LintersFor(changed_files[idx])[linter_k] IN
       \E o \in outcomes :
          /\ issues' = issues \o LinterIssue(name, o)
          /\ lint_log' = Append(lint_log, [name |-> name, outcome |-> o])
          /\ calls' = Append(calls, [op |-> "linter", path |-> changed_files[idx], n |-> 0])
          /\ faults' = IF o \in LinterFaults THEN faults + 1 ELSE faults
    /\ linter_k' = linter_k + 1
    /\ UNCHANGED <<env, pc, changed_files, idx, linter_issues, ai_issues,
                   ai_log, all_issues, posts, linter_total, ai_total>>

\* One pass of the loop within a run of run_review.
run_linter ==
    RunLinter(LinterNormal \cup (IF faults < MaxFaults THEN LinterFaults ELSE {}))

\* run_linters returns: at once for an unrecognized extension, else after
\* the last linter.
run_linters_return ==
    /\ pc = "run_linters"
    /\ linter_k > Len(LintersFor(changed_files[idx]))
    /\ linter_issues' = issues
    /\ pc' = "analyze_code_with_ai"
    /\ UNCHANGED <<env, changed_files, idx, linter_k, issues, lint_log,
                   ai_issues, ai_log, all_issues, calls, posts, linter_total,
                   ai_total, faults>>

\* --------------------------------------------------- analyze_code_with_ai
\* The if/elif chain over the credentials: the branch taken.
Provider(openai, anthropic, google) ==
    IF openai THEN "OpenAI" ELSE IF anthropic THEN "Claude" ELSE "none"

\* AiIssues with an except branch that only passes: a failed provider call
\* leaves no issue.
AiIssuesSwallowError(provider, o) ==
    IF o.kind = "raise" THEN <<>>
    ELSE IF Strip(o.text) # ""
         THEN <<"**AI Review (" \o provider \o ")**: " \o o.text>>
         ELSE <<>>

\* The body of a provider's branch: the issues it appends.
AiIssues(provider, o) ==
    IF o.kind = "raise" THEN <<"**AI Review Error**: " \o o.text>>
    ELSE IF Strip(o.text) # ""
         THEN <<"**AI Review (" \o provider \o ")**: " \o o.text>>
         ELSE <<>>

analyze_code_with_ai ==
    /\ pc = "analyze_code_with_ai"
    /\ LET provider == Provider(openai_api_key, anthropic_api_key, google_api_key) IN
       IF provider = "none"
       THEN /\ ai_issues' = <<>>
            /\ ai_log' = <<>>
            /\ UNCHANGED <<calls, faults>>
       ELSE \E o \in AiNormal \cup (IF faults < MaxFaults THEN AiFaults ELSE {}) :
               /\ ai_issues' = AiIssues(provider, o)
               /\ ai_log' = <<[provider |-> provider, outcome |-> o]>>
               /\ calls' = Append(calls, [op |-> "provider", path |-> changed_files[idx], n |-> 0])
               /\ faults' = IF o \in AiFaults THEN faults + 1 ELSE faults
    /\ pc' = "post_comment"
    /\ lint_log' = <<>>
    /\ UNCHANGED <<env, changed_files, idx, linter_k, issues, linter_issues,
                   all_issues, posts, linter_total, ai_total>>

\* ------------------------------------------- post_comment and the summary
\* The outcomes of requests.post + raise_for_status: without a token the
\* hosting API answers 401.
HttpOutcomes ==
    IF ~github_token THEN {"failed"}
    ELSE {"ok"} \cup (IF faults < MaxFaults THEN {"failed"} ELSE {})

\* The comment run_review builds for a file.
FileComment(path, file_issues) ==
    "## Code Review for " \o path \o "\n\n" \o Join(file_issues, "\n\n")

\* len([i for i in all if word in i.lower()])
CountContaining(all, word) ==
    Cardinality({k \in DOMAIN all : Contains(Lower(all[k]), word)})

\* The f-string of the summary.
SummaryText(all, files) ==
    "\n## Code Review Summary\n\nFound " \o ToString(Len(all))
    \o " issues across " \o ToString(Len(files))
    \o " files.\n\n### Key Findings:\n- Linter issues: "
    \o ToString(CountContaining(all, "linter"))
    \o "\n- AI analysis issues: "
    \o ToString(CountContaining(all, "ai review"))
    \o "\n\nPlease review the detailed comments above and address the identified issues.\n            "

\* The fixed message (its leading check-mark emoji is not ASCII and is left out).
NoIssuesMessage == "Code review completed - no issues found!"

\* The rest of the loop body: combine the issues and, if there are any,
\* post_comment(file_path, 1, comment).  get_pr_details runs outside the
\* try: a payload it cannot read raises out of run_review.
post_comment ==
    /\ pc = "post_comment"
    /\ LET file_path == changed_files[idx]
           file_issues == linter_issues \o ai_issues
       IN  IF file_issues = <<>>
           THEN /\ idx' = idx + 1
                /\ pc' = "for_file"
                /\ UNCHANGED <<all_issues, calls, posts, linter_total, ai_total, faults>>
           ELSE /\ calls' = Append(calls, [op |-> "post_comment", path |-> file_path,
                                        n |-> Len(file_issues)])
                /\ IF ~event_ok
                   THEN /\ pc' = "crashed"
                        /\ UNCHANGED <<idx, all_issues, posts, linter_total, ai_total, faults>>
                   ELSE \E status \in HttpOutcomes :
                           /\ posts' = Append(posts,
                                 [op |-> "post_comment", path |-> file_path, line |-> 1,
                                  body |-> FileComment(file_path, file_issues),
                                  status |-> status])
                           /\ faults' = IF status = "failed" /\ github_token
                                        THEN faults + 1 ELSE faults
                           /\ all_issues' = all_issues \o file_issues
                           /\ linter_total' = linter_total + Len(linter_issues)
                           /\ ai_total' = ai_total + Len(ai_issues)
                           /\ idx' = idx + 1
                           /\ pc' = "for_file"
    /\ ai_log' = <<>>
    /\ UNCHANGED <<env, changed_files, linter_k, issues, lint_log,
                   linter_issues, ai_issues>>

\* The body run_review passes to post_review_comment.
SummaryBody(all, files) ==
    IF all # <<>> THEN SummaryText(all, files) ELSE NoIssuesMessage

\* After the loop: post_review_comment(summary), then run_review returns.
post_review_comment ==
    /\ pc = "post_review_comment"
    /\ calls' = Append(calls, [op |-> "post_review_comment", path |-> "", n |-> 0])
    /\ IF ~event_ok
       THEN /\ pc' = "crashed"
            /\ UNCHANGED <<posts, faults>>
       ELSE \E status \in HttpOutcomes :
               /\ posts' = Append(posts,
                     [op |-> "post_review_comment", path |-> "", line |-> 0,
                      body |-> SummaryBody(all_issues, changed_files),
                      status |-> status])
               /\ faults' = IF status = "failed" /\ github_token
                            THEN faults + 1 ELSE faults
               /\ pc' = "done"
    /\ UNCHANGED <<env, changed_files, idx, linter_k, issues, lint_log,
                   linter_issues, ai_issues, ai_log, all_issues, linter_total,
                   ai_total>>

Next ==
    \/ get_changed_files
    \/ for_file
    \/ run_linter
    \/ run_linters_return
    \/ analyze_code_with_ai
    \/ post_comment
    \/ post_review_comment

Spec == Init /\ [][Next]_vars

\* The exit status of the process: an uncaught exception ends it with 1.
ExitStatus == IF pc = "crashed" THEN 1 ELSE 0

\* ------------------------------------------------- run_linters on its own
\* run_review has just called run_linters on the one file of its change
\* set; every linter may end in any way.
InitLinters ==
    /\ github_token = TRUE
    /\ openai_api_key = FALSE
    /\ anthropic_api_key = FALSE
    /\ google_api_key = FALSE
    /\ event_ok = TRUE
    /\ \E p \in Range(Paths) :
          /\ diff = [status |-> "exit0", stdout |-> Stdout(<<p>>)]
          /\ disk = {p}
          /\ changed_files = <<p>>
    /\ pc = "run_linters"
    /\ idx = 1
    /\ linter_k = 1
    /\ issues = <<>>
    /\ lint_log = <<>>
    /\ linter_issues = <<>>
    /\ ai_issues = <<>>
    /\ ai_log = <<>>
    /\ all_issues = <<>>
    /\ calls = <<[op |-> "git_diff", path |-> "", n |-> 0]>>
    /\ posts = <<>>
    /\ linter_total = 0
    /\ ai_total = 0
    /\ faults = 0

run_linter_any == RunLinter(LinterNormal \cup LinterFaults)

NextLinters == run_linter_any \/ run_linters_return

SpecLinters == InitLinters /\ [][NextLinters]_vars

\* ============================================================== properties
Terminated == pc \in {"done", "crashed"}

StartsWith(s, prefix) == Len(s) >= Len(prefix) /\ SubSeq(s, 1, Len(prefix)) = prefix

\* The text of an issue after its label "**<label>**: ".
IssueBody(issue) ==
    LET k == CHOOSE j \in 1..Len(issue) :
                 /\ SubSeq(issue, j, j + 3) = "**: "
                 /\ \A h \in 1..(j - 1) : SubSeq(issue, h, h + 3) # "**: "
    IN  SubSeq(issue, k + 4, Len(issue))

CallsOf(op) == {j \in DOMAIN calls : calls[j].op = op}

SummaryPosts == {j \in DOMAIN posts : posts[j].op = "post_review_comment"}

\* The files of the change set that were reviewed: those found on disk.
ReviewedFiles == {k \in DOMAIN changed_files : changed_files[k] \in disk}

NoFilePostAfterSummary ==
    \A j \in CallsOf("post_review_comment") : \A k \in CallsOf("post_comment") : k < j

\* The hosting token is set and the event payload is readable.
SoundEnvironment == github_token /\ event_ok

\* C1 as claimed: every run of run_review that returns (here: in a sound
\* environment) has attempted the summary post exactly once, after every
\* per-file post.
C1_SummaryOnceInEveryRun ==
    (pc = "done" /\ SoundEnvironment) =>
        /\ Cardinality(CallsOf("post_review_comment")) = 1
        /\ NoFilePostAfterSummary

\* C1 amended: no run attempts the summary post more than once or before a
\* per-file post; a run that returns with a non-empty change set has
\* attempted it exactly once; a run with an empty change set returns
\* without attempting it.
C1_SummaryOnceAfterFileComments ==
    /\ Cardinality(CallsOf("post_review_comment")) <= 1
    /\ NoFilePostAfterSummary
    /\ (pc = "done" /\ changed_files # <<>>) =>
            /\ Cardinality(CallsOf("post_review_comment")) = 1
            /\ calls[Len(calls)].op = "post_review_comment"
    /\ (pc = "done" /\ changed_files = <<>>) => CallsOf("post_review_comment") = {}

\* A run that returned after two per-file posts and then the summary post.
C1_Witness ==
    /\ pc = "done"
    /\ Cardinality(CallsOf("post_comment")) = 2
    /\ Cardinality(CallsOf("post_review_comment")) = 1

\* C2: a linter, a provider or post_comment is only ever called for a path
\* that exists on disk, post_comment only with at least one issue, and a
\* path that is gone is passed over: the loop body never runs for it and
\* the run only ever ends abnormally inside the diff or a post.
C2_FileCommentOnlyForExistingFileWithIssues ==
    /\ \A j \in DOMAIN calls :
          calls[j].op \in {"linter", "provider", "post_comment"} => calls[j].path \in disk
    /\ \A j \in CallsOf("post_comment") : calls[j].n > 0
    /\ \A j \in DOMAIN posts :
          posts[j].op = "post_comment" =>
              /\ posts[j].path \in disk
              /\ posts[j].body # FileComment(posts[j].path, <<>>)
    /\ pc \in {"run_linters", "analyze_code_with_ai", "post_comment"} =>
          changed_files[idx] \in disk
    /\ pc = "crashed" =>
          calls[Len(calls)].op \in {"git_diff", "post_comment", "post_review_comment"}

\* A run that returned having skipped a missing path and reviewed a file
\* that had no issue: linters ran, nothing was posted for a file.
C2_Witness ==
    /\ pc = "done"
    /\ \E k \in DOMAIN changed_files : changed_files[k] \notin disk
    /\ CallsOf("linter") # {}
    /\ CallsOf("post_comment") = {}
    /\ CallsOf("post_review_comment") # {}

\* C3: the summary is the fixed message when no issue was collected, and
\* otherwise reports the number of issues commented on and the number of
\* files that were reviewed (checked on the summaries that were accepted).
C3_SummaryReportsTotals ==
    \A j \in SummaryPosts :
        posts[j].status = "ok" =>
        IF linter_total + ai_total = 0
        THEN posts[j].body = NoIssuesMessage
        ELSE Contains(posts[j].body,
                      "Found " \o ToString(linter_total + ai_total) \o " issues across "
                      \o ToString(Cardinality(ReviewedFiles)) \o " files.")

\* C4: a counts summary reports the number of issues run_linters produced
\* and the number analyze_code_with_ai produced (checked on the summaries
\* that were accepted).
C4_SummaryCategoryCounts ==
    \A j \in SummaryPosts :
        (posts[j].status = "ok" /\ posts[j].body # NoIssuesMessage) =>
            /\ Contains(posts[j].body,
                        "- Linter issues: " \o ToString(linter_total) \o "\n")
            /\ Contains(posts[j].body,
                        "- AI analysis issues: " \o ToString(ai_total) \o "\n")

\* The first provider, in priority order, whose credential is present.
FirstConfigured ==
    IF openai_api_key THEN "OpenAI"
    ELSE IF anthropic_api_key THEN "Claude"
    ELSE "Gemini"

\* C5: when analyze_code_with_ai returns, it has contacted exactly one
\* provider, the first whose credential is present, if any credential is
\* present, and otherwise none, returning no issue.
C5_ExactlyOneProviderAttempted ==
    pc = "post_comment" =>
        IF openai_api_key \/ anthropic_api_key \/ google_api_key
        THEN /\ Len(ai_log) = 1
             /\ ai_log[1].provider = FirstConfigured
        ELSE /\ ai_log = <<>>
             /\ ai_issues = <<>>

\* The linters of each path of the model.
C6_LintersOf(path) ==
    IF path = "a.py" THEN <<"pylint", "flake8", "black", "isort">>
    ELSE IF path = "b.ts" THEN <<"eslint", "prettier">>
    ELSE <<>>

\* C6: a provider call that raised has left exactly one issue, labeled
\* "AI Review Error" and carrying str(e); no failed provider call or failed
\* post ends the run (it ends abnormally only on an unreadable event payload
\* or a diff that cannot be executed); and a run that returns with a
\* non-empty change set has run every linter and the provider on every
\* file found on disk and ended with the summary post.
C6_RemoteFailuresAreContained ==
    /\ (pc = "post_comment" /\ ai_log # <<>> /\ ai_log[1].outcome.kind = "raise") =>
          ai_issues = <<"**AI Review Error**: " \o ai_log[1].outcome.text>>
    /\ pc = "crashed" => (~event_ok \/ diff.status = "cannot_exec")
    /\ (pc = "done" /\ changed_files # <<>>) =>
          /\ \A k \in ReviewedFiles :
                LET of_file(op) == {j \in CallsOf(op) : calls[j].path = changed_files[k]} IN
                /\ Cardinality(of_file("linter")) = Len(C6_LintersOf(changed_files[k]))
                /\ (openai_api_key \/ anthropic_api_key) =>
                      Cardinality(of_file("provider")) = 1
          /\ calls[Len(calls)].op = "post_review_comment"

\* A run that returned after the provider call of its first file raised:
\* the error issue was collected, the second file was still reviewed and
\* the summary post was made.
C6_Witness ==
    /\ pc = "done"
    /\ Len(changed_files) = 2
    /\ all_issues = <<"**AI Review Error**: Connection error.">>
    /\ \E j \in CallsOf("provider") : calls[j].path = changed_files[2]
    /\ SummaryPosts # {}

\* C7: a run that got past the change set with an unreadable event payload
\* or without the hosting token ends with a non-zero status and has posted
\* no comment.
C7_BadPayloadOrMissingTokenIsFatal ==
    (Terminated /\ changed_files # <<>> /\ (~event_ok \/ ~github_token)) =>
        /\ ExitStatus # 0
        /\ \A j \in DOMAIN posts : posts[j].status # "ok"

\* C8: when the diff prints nothing or fails, get_changed_files returns the
\* empty list and run_review returns normally without any post.
C8_FailedDiffEndsRunQuietly ==
    (pc # "get_changed_files" /\ (diff.status # "exit0" \/ Strip(diff.stdout) = "")) =>
        /\ pc = "done"
        /\ ExitStatus = 0
        /\ changed_files = <<>>
        /\ posts = <<>>
        /\ CallsOf("post_comment") \cup CallsOf("post_review_comment") = {}

\* The linters the claim expects for each path of the model.
C9_ExpectedLinters(path) == C6_LintersOf(path)

\* Whether a linter outcome is to be reported: a non-zero exit or a timeout.
C9_Reported(o) == o.kind = "timeout" \/ (o.kind = "exit" /\ o.returncode # 0)

\* The positions of lint_log whose outcome is to be reported, in order.
C9_ReportedAt == SelectSeq([k \in DOMAIN lint_log |-> k], LAMBDA k : C9_Reported(lint_log[k].outcome))

\* C9: when run_linters returns, every linter of the path's extension class
\* has been run, in order, whatever the earlier ones did, and the issues
\* returned are, in order, one per linter that exited non-zero or timed out,
\* labeled with its name (body "Timeout" for a timeout); none for a linter
\* that exited 0 or is not installed; nothing is run for another extension.
C9_EveryLinterRunsOneIssuePerFailure ==
    pc = "analyze_code_with_ai" =>
        /\ [k \in DOMAIN lint_log |-> lint_log[k].name] = C9_ExpectedLinters(changed_files[idx])
        /\ Len(linter_issues) = Len(C9_ReportedAt)
        /\ \A j \in DOMAIN linter_issues :
              LET e == lint_log[C9_ReportedAt[j]] IN
              /\ StartsWith(linter_issues[j], "**" \o e.name \o "**: ")
              /\ e.outcome.kind = "timeout" =>
                    linter_issues[j] = "**" \o e.name \o "**: Timeout"
              /\ e.outcome.kind = "exit" =>
                    IssueBody(linter_issues[j]) \in {e.outcome.stderr, e.outcome.stdout}

\* run_linters returned for a.py after pylint timed out, flake8 was not
\* installed, black exited non-zero and isort exited 0: two issues.
C9_Witness ==
    /\ pc = "analyze_code_with_ai"
    /\ changed_files[idx] = "a.py"
    /\ Len(lint_log) = 4
    /\ lint_log[1].outcome.kind = "timeout"
    /\ lint_log[2].outcome.kind = "notfound"
    /\ lint_log[3].outcome.kind = "exit" /\ lint_log[3].outcome.returncode # 0
    /\ lint_log[4].outcome.kind = "exit" /\ lint_log[4].outcome.returncode = 0
    /\ Len(linter_issues) = 2

\* C10: every issue held in an issue list has a non-empty body after its
\* label.
C10_NoEmptyBodiedIssue ==
    \A list \in {issues, linter_issues, ai_issues, all_issues} :
        \A j \in DOMAIN list : IssueBody(list[j]) # ""

====
